---- MODULE Spec2Model ----
(***************************************************************************)
(* A model of rusty-socket: the frame codec (src/src/frame.rs), the        *)
(* masking transform (src/src/mask.rs), the upgrade handshake              *)
(* (src/src/handshake.rs) and the connection (src/src/lib.rs).             *)
(*                                                                         *)
(* Bytes are the integers 0..255.  A byte sequence (Vec<u8>, &[u8], the    *)
(* bytes on a stream) is a TLA+ sequence of bytes.  Option<[u8; 4]> is the *)
(* empty sequence for None and a sequence of four bytes for Some.          *)
(***************************************************************************)
EXTENDS Integers, Sequences, FiniteSets, TLC

VARIABLES
    frame,      \* codec: the Frame handed to to_bytes
    bytes,      \* codec: the bytes a reader is given (a stream that then ends)
    decoded,    \* codec: what read_from returned for bytes
    phase,      \* codec: "new", "encoded", "decoded"
    is_client,  \* WebSocket.is_client
    inbound,    \* WebSocket.stream, read half: bytes written by the peer, unread
    inEnded,    \* the peer has closed its half: the stream ends after inbound
    peerLog,    \* the frames the peer has written, in order
    taken,      \* how many of them receive() has read
    pc,         \* "active", "closing" (in close()'s loop), "closed", "panicked"
    last,       \* the last operation on the connection and its outcome
    hsRole,     \* handshake: "server" (server_handshake) or "client"
    hsPc,       \* handshake: "start", "read" (in the header loop), "done"
    hsKey,      \* client_handshake: key, once generated
    hsIn,       \* handshake: stream, read half: bytes of the peer, unread
    hsEnded,    \* handshake: the stream ends after hsIn
    hsBuf,      \* handshake: buf_reader's buffer (read from the stream, unused)
    headers,    \* handshake: headers, a set of <<key, value>>
    hsOut,      \* handshake: the bytes written to the stream
    hsRes,      \* handshake: "none", "ok", "protocol"
    hsLog,      \* handshake: the lines the peer has written, in order
    mData,      \* masking: the bytes handed to the transform
    mMask,      \* masking: the 4-byte mask
    mOut,       \* masking: what the transform left
    mPc,        \* masking: "new", "once", "twice", "framed", "panicked"
    peerSend,   \* the far connection of a pair: outcome of its last send()
    srv,        \* the far server_handshake of a pair: its locals and stream
    net         \* a pair's transport: bytes of each direction delivered so far

codecVars == <<frame, bytes, decoded, phase>>

connVars == <<is_client, inbound, inEnded, peerLog, taken, pc, last>>

hsVars ==
    <<hsRole, hsPc, hsKey, hsIn, hsEnded, hsBuf, headers, hsOut, hsRes, hsLog>>

maskVars == <<mData, mMask, mOut, mPc>>

farVars == <<peerSend, srv, net>>

vars == <<codecVars, connVars, hsVars, maskVars, farVars>>

(***************************************************************************)
(* Byte arithmetic                                                          *)
(***************************************************************************)
Byte == 0..255

\* bit k (0 = least significant) of b, as the code's (b & (1 << k)) != 0
Bit(b, k) == (b \div (2 ^ k)) % 2 = 1

RECURSIVE XorBits(_, _, _)
XorBits(a, b, n) ==
    IF n = 0 THEN 0
    ELSE (((a % 2) + (b % 2)) % 2) + 2 * XorBits(a \div 2, b \div 2, n - 1)

XorNibble == [a \in 0..15 |-> [b \in 0..15 |-> XorBits(a, b, 4)]]

\* a ^ b on u8
Xor8(a, b) ==
    (16 * XorNibble[a \div 16][b \div 16]) + XorNibble[a % 16][b % 16]

\* n.to_be_bytes() for an integer of w bytes
RECURSIVE to_be_bytes(_, _)
to_be_bytes(n, w) ==
    IF w = 0 THEN <<>>
    ELSE Append(to_be_bytes(n \div 256, w - 1), n % 256)

\* uN::from_be_bytes(buf)
RECURSIVE from_be_bytes(_)
from_be_bytes(buf) ==
    IF buf = <<>> THEN 0
    ELSE 256 * from_be_bytes(SubSeq(buf, 1, Len(buf) - 1)) + buf[Len(buf)]

\* the loop below with a wrapping addition in place of the XOR
XorMask_wrapping_add(data, mask) ==
    [i \in 1..Len(data) |-> (data[i] + mask[((i - 1) % 4) + 1]) % 256]

\* for (i, byte) in data.iter_mut().enumerate() { *byte ^= mask[i % 4]; }
\* (i counts from 0 in the code and from 1 here)
XorMask(data, mask) ==
    [i \in 1..Len(data) |-> Xor8(data[i], mask[((i - 1) % 4) + 1])]

(***************************************************************************)
(* OpCode                                                                   *)
(***************************************************************************)
OpCodes == {"Continuation", "Text", "Binary", "Close", "Ping", "Pong"}

\* `self.opcode as u8`: the enum declares no discriminants, so the cast
\* yields the variant's position in the declaration
OpCode_as_u8(op) ==
    CASE op = "Continuation" -> 0
      [] op = "Text"         -> 1
      [] op = "Binary"       -> 2
      [] op = "Close"        -> 3
      [] op = "Ping"         -> 4
      [] op = "Pong"         -> 5

\* OpCode::try_from with a fallback arm in place of the error
OpCode_try_from_fallback(value) ==
    CASE value = 0  -> [ok |-> TRUE, opcode |-> "Continuation"]
      [] value = 1  -> [ok |-> TRUE, opcode |-> "Text"]
      [] value = 2  -> [ok |-> TRUE, opcode |-> "Binary"]
      [] value = 8  -> [ok |-> TRUE, opcode |-> "Close"]
      [] value = 9  -> [ok |-> TRUE, opcode |-> "Ping"]
      [] value = 10 -> [ok |-> TRUE, opcode |-> "Pong"]
      [] OTHER      -> [ok |-> TRUE, opcode |-> "Binary"]

\* OpCode::try_from(value): Ok(opcode) or Err(Error::Protocol)
OpCode_try_from(value) ==
    CASE value = 0  -> [ok |-> TRUE, opcode |-> "Continuation"]
      [] value = 1  -> [ok |-> TRUE, opcode |-> "Text"]
      [] value = 2  -> [ok |-> TRUE, opcode |-> "Binary"]
      [] value = 8  -> [ok |-> TRUE, opcode |-> "Close"]
      [] value = 9  -> [ok |-> TRUE, opcode |-> "Ping"]
      [] value = 10 -> [ok |-> TRUE, opcode |-> "Pong"]
      [] OTHER      -> [ok |-> FALSE, opcode |-> "Invalid"]

(***************************************************************************)
(* Frame                                                                    *)
(***************************************************************************)
None == <<>>

Frame_new(opcode, payload) ==
    [fin |-> TRUE, rsv1 |-> FALSE, rsv2 |-> FALSE, rsv3 |-> FALSE,
     opcode |-> opcode, mask |-> None, payload |-> payload]

\* Frame::close(None)
Frame_close == Frame_new("Close", <<>>)

is_close(f) == f.opcode = "Close"

is_masked(f) == f.mask # None

\* Frame::to_bytes with the first tier's test written `payload_len <= 126`
to_bytes_tier_off_by_one(f) ==
    LET first_byte ==
            (IF f.fin THEN 128 ELSE 0) + (IF f.rsv1 THEN 64 ELSE 0)
            + (IF f.rsv2 THEN 32 ELSE 0) + (IF f.rsv3 THEN 16 ELSE 0)
            + OpCode_as_u8(f.opcode)
        second_byte == IF f.mask # None THEN 128 ELSE 0
        payload_len == Len(f.payload)
        head ==
            IF payload_len <= 126
            THEN <<first_byte, second_byte + payload_len>>
            ELSE IF payload_len < 65536
            THEN <<first_byte, second_byte + 126>>
                 \o to_be_bytes(payload_len % 65536, 2)
            ELSE <<first_byte, second_byte + 127>>
                 \o to_be_bytes(payload_len, 8)
    IN  head \o f.mask \o f.payload

\* Frame::to_bytes
to_bytes(f) ==
    LET first_byte ==
            (IF f.fin THEN 128 ELSE 0) + (IF f.rsv1 THEN 64 ELSE 0)
            + (IF f.rsv2 THEN 32 ELSE 0) + (IF f.rsv3 THEN 16 ELSE 0)
            + OpCode_as_u8(f.opcode)
        second_byte == IF f.mask # None THEN 128 ELSE 0
        payload_len == Len(f.payload)
        head ==
            IF payload_len < 126
            THEN <<first_byte, second_byte + payload_len>>
            ELSE IF payload_len < 65536
            THEN <<first_byte, second_byte + 126>>
                 \o to_be_bytes(payload_len % 65536, 2)
            ELSE <<first_byte, second_byte + 127>>
                 \o to_be_bytes(payload_len, 8)
    IN  head \o f.mask \o f.payload

\* What read_from returns:
\*   kind "frame"    Ok(Frame), with the frame
\*   kind "protocol" Err(Error::Protocol)
\*   kind "io"       Err(Error::Io): read_exact met the end of the stream
\*   kind "pending"  the future is still waiting for bytes
\* used is the number of bytes taken from the stream.
\* the frame field of a result that carries no frame
NoFrame == [opcode |-> "Invalid"]

ReadResult(kind, f, used) == [kind |-> kind, frame |-> f, used |-> used]

NoResult == ReadResult("none", NoFrame, 0)

\* reader.read_exact(&mut buf) for n bytes at offset pos of a stream that holds
\* `stream` and, when eof, then ends
read_exact(stream, eof, pos, n) ==
    IF Len(stream) - pos >= n THEN "ok"
    ELSE IF eof THEN "io" ELSE "pending"

\* a failed read_exact with the end of the stream reported as a closed
\* connection (Error::ConnectionClosed) in place of the I/O error
Short_as_closed(stream, st) ==
    ReadResult(IF st = "io" THEN "closed" ELSE st, NoFrame,
               IF st = "io" THEN Len(stream) ELSE 0)

\* the state a failed read_exact leaves: everything that was there is taken;
\* `?` turns the io::Error into Error::Io
Short(stream, st) == ReadResult(st, NoFrame, IF st = "io" THEN Len(stream) ELSE 0)

\* Frame::read_from refusing a length that a smaller tier would have held
read_from_strict(stream, eof) ==
    LET r1 == read_exact(stream, eof, 0, 2) IN
    IF r1 # "ok" THEN Short(stream, r1) ELSE
    LET first_byte == stream[1]
        second_byte == stream[2]
        fin == Bit(first_byte, 7)
        rsv1 == Bit(first_byte, 6)
        rsv2 == Bit(first_byte, 5)
        rsv3 == Bit(first_byte, 4)
        opcode == OpCode_try_from(first_byte % 16)
    IN
    IF ~opcode.ok THEN ReadResult("protocol", NoFrame, 2) ELSE
    LET masked == Bit(second_byte, 7)
        code == second_byte % 128
        ext == IF code = 126 THEN 2 ELSE IF code = 127 THEN 8 ELSE 0
        r2 == read_exact(stream, eof, 2, ext)
    IN
    IF r2 # "ok" THEN Short(stream, r2) ELSE
    LET payload_len ==
            IF ext = 0 THEN code ELSE from_be_bytes(SubSeq(stream, 3, 2 + ext))
        mlen == IF masked THEN 4 ELSE 0
        r3 == read_exact(stream, eof, 2 + ext, mlen)
    IN
    IF r3 # "ok" THEN Short(stream, r3) ELSE
    IF (ext = 2 /\ payload_len < 126) \/ (ext = 8 /\ payload_len < 65536)
    THEN ReadResult("protocol", NoFrame, 2 + ext + mlen) ELSE
    LET mask == SubSeq(stream, 3 + ext, 2 + ext + mlen)
        start == 2 + ext + mlen
        r4 == read_exact(stream, eof, start, payload_len)
    IN
    IF r4 # "ok" THEN Short(stream, r4) ELSE
    LET raw == SubSeq(stream, start + 1, start + payload_len)
        payload == IF masked THEN XorMask(raw, mask) ELSE raw
    IN
    ReadResult("frame",
               [fin |-> fin, rsv1 |-> rsv1, rsv2 |-> rsv2, rsv3 |-> rsv3,
                opcode |-> opcode.opcode, mask |-> mask, payload |-> payload],
               start + payload_len)

\* Frame::read_from
read_from(stream, eof) ==
    LET r1 == read_exact(stream, eof, 0, 2) IN
    IF r1 # "ok" THEN Short(stream, r1) ELSE
    LET first_byte == stream[1]
        second_byte == stream[2]
        fin == Bit(first_byte, 7)
        rsv1 == Bit(first_byte, 6)
        rsv2 == Bit(first_byte, 5)
        rsv3 == Bit(first_byte, 4)
        opcode == OpCode_try_from(first_byte % 16)
    IN
    IF ~opcode.ok THEN ReadResult("protocol", NoFrame, 2) ELSE
    LET masked == Bit(second_byte, 7)
        code == second_byte % 128
        ext == IF code = 126 THEN 2 ELSE IF code = 127 THEN 8 ELSE 0
        r2 == read_exact(stream, eof, 2, ext)
    IN
    IF r2 # "ok" THEN Short(stream, r2) ELSE
    LET payload_len ==
            IF ext = 0 THEN code ELSE from_be_bytes(SubSeq(stream, 3, 2 + ext))
        mlen == IF masked THEN 4 ELSE 0
        r3 == read_exact(stream, eof, 2 + ext, mlen)
    IN
    IF r3 # "ok" THEN Short(stream, r3) ELSE
    LET mask == SubSeq(stream, 3 + ext, 2 + ext + mlen)
        start == 2 + ext + mlen
        r4 == read_exact(stream, eof, start, payload_len)
    IN
    IF r4 # "ok" THEN Short(stream, r4) ELSE
    LET raw == SubSeq(stream, start + 1, start + payload_len)
        payload == IF masked THEN XorMask(raw, mask) ELSE raw
    IN
    ReadResult("frame",
               [fin |-> fin, rsv1 |-> rsv1, rsv2 |-> rsv2, rsv3 |-> rsv3,
                opcode |-> opcode.opcode, mask |-> mask, payload |-> payload],
               start + payload_len)

\* the values rng.gen() returns for a mask here
Masks == {<<0, 0, 0, 0>>, <<1, 2, 4, 255>>}

\* a payload of len bytes
Payload(len, seed) == [i \in 1..len |-> (seed + (37 * i)) % 256]

(***************************************************************************)
(* Masking transform (src/src/mask.rs)                                      *)
(***************************************************************************)
\* slice.rotate_right(k), for k <= len
rotate_right(data, k) ==
    SubSeq(data, Len(data) - k + 1, Len(data)) \o SubSeq(data, 1, Len(data) - k)

\* mask_frame(data) with `mask` the value rng.gen() returned.  data is a
\* slice: its length cannot change.  rotate_right(4) panics when the slice
\* is shorter than 4 (as data[..4] would); panic says so, and data is then
\* what the slice held at the panic.
mask_frame(data, mask) ==
    LET xored == XorMask(data, mask) IN
    IF Len(data) < 4
    THEN [panic |-> TRUE, data |-> xored]
    ELSE [panic |-> FALSE,
          data |-> mask \o SubSeq(rotate_right(xored, 4), 5, Len(data))]

(***************************************************************************)
(* Connection (src/src/lib.rs)                                              *)
(***************************************************************************)
\* the bytes send(frame) hands to write_all, or the panic before it
send_data(client, f, mask) ==
    LET data == to_bytes(f) IN
    IF client THEN mask_frame(data, mask) ELSE [panic |-> FALSE, data |-> data]

\* WebSocket::receive on a stream holding `stream`
receive(client, stream, ended) ==
    LET r == read_from(stream, ended) IN
    IF r.kind # "frame" THEN r
    ELSE IF ~client /\ is_masked(r.frame)
    THEN ReadResult("protocol", NoFrame, r.used)
    ELSE IF client /\ ~is_masked(r.frame)
    THEN ReadResult("protocol", NoFrame, r.used)
    ELSE r

Drop(stream, n) == SubSeq(stream, n + 1, Len(stream))

Op(name, arg, kind, f, data) ==
    [name |-> name, arg |-> arg, kind |-> kind, frame |-> f, data |-> data]

NoOp == Op("none", NoFrame, "none", NoFrame, <<>>)

\* The peer: the other end of the transport.  It writes whole frames in the
\* wire format of the protocol (opcode values 0,1,2,8,9,10; a masked frame
\* carries its key and the payload XOR-ed with it), masked or not, and a
\* frame with the reserved opcode value 3.
MaxPeerFrames == 2

PeerMask == <<17, 34, 51, 68>>

PeerFrames ==
    {[Frame_new(o, IF o = "Text" THEN <<72, 105>> ELSE <<>>) EXCEPT !.mask = m] :
        o \in {"Text", "Close"}, m \in {None, PeerMask}}
    \cup {Frame_new("Reserved3", <<>>)}

PeerWireValue(o) ==
    CASE o = "Text"      -> 1
      [] o = "Close"     -> 8
      [] o = "Reserved3" -> 3

PeerWire(f) ==
    <<128 + PeerWireValue(f.opcode),
      (IF f.mask # None THEN 128 ELSE 0) + Len(f.payload)>>
    \o f.mask
    \o (IF f.mask # None THEN XorMask(f.payload, f.mask) ELSE f.payload)

\* the frames the caller passes to send(): final and not, with and without
\* a mask of the caller's, payloads of 0..MaxPayload bytes
MaxPayload == 2

SendFrames ==
    {[fin |-> o = "Text", rsv1 |-> FALSE, rsv2 |-> o # "Text", rsv3 |-> FALSE,
      opcode |-> o, mask |-> m, payload |-> Payload(len, 0)] :
        o \in {"Text", "Close"}, m \in {None, PeerMask}, len \in 0..MaxPayload}

\* the masking transform and the far end of a pair, not in use
MaskIdle ==
    /\ mData = <<>>
    /\ mMask = <<>>
    /\ mOut = <<>>
    /\ mPc = "idle"

FarIdle ==
    /\ peerSend = "none"
    /\ srv = [pc |-> "idle"]
    /\ net = [c2s |-> 0, s2c |-> 0]

Init ==
    /\ is_client \in BOOLEAN
    /\ inbound = <<>>
    /\ inEnded = FALSE
    /\ peerLog = <<>>
    /\ taken = 0
    /\ pc = "active"
    /\ last = NoOp
    /\ hsRole = "none"
    /\ hsPc = "idle"
    /\ hsKey = <<>>
    /\ hsIn = <<>>
    /\ hsEnded = FALSE
    /\ hsBuf = <<>>
    /\ headers = {}
    /\ hsOut = <<>>
    /\ hsRes = "none"
    /\ hsLog = <<>>
    /\ frame = NoFrame
    /\ bytes = <<>>
    /\ decoded = NoResult
    /\ phase = "idle"
    /\ MaskIdle
    /\ FarIdle

PeerWrite ==
    \E f \in PeerFrames :
    /\ ~inEnded
    /\ Len(peerLog) < MaxPeerFrames
    /\ peerLog' = Append(peerLog, f)
    /\ inbound' = inbound \o PeerWire(f)
    /\ UNCHANGED <<is_client, inEnded, taken, pc, last, codecVars, hsVars,
                   maskVars, farVars>>

PeerEnd ==
    /\ ~inEnded
    /\ inEnded' = TRUE
    /\ UNCHANGED <<is_client, inbound, peerLog, taken, pc, last, codecVars, hsVars,
                   maskVars, farVars>>

\* WebSocket::send(frame)
Send ==
    \E f \in SendFrames : \E mask \in (IF is_client THEN Masks ELSE {None}) :
    /\ pc = "active"
    /\ LET r == send_data(is_client, f, mask) IN
       IF r.panic
       THEN /\ pc' = "panicked"
            /\ last' = Op("send", f, "panic", NoFrame, <<>>)
       ELSE /\ pc' = pc
            /\ last' = Op("send", f, "ok", NoFrame, r.data)
    /\ UNCHANGED <<is_client, inbound, inEnded, peerLog, taken, codecVars, hsVars,
                   maskVars, farVars>>

\* the peer frame the next receive() reads, if one is left
NextPeerFrame == IF taken < Len(peerLog) THEN peerLog[taken + 1] ELSE NoFrame

\* WebSocket::receive()
Receive ==
    /\ pc = "active"
    /\ LET r == receive(is_client, inbound, inEnded) IN
       /\ r.kind # "pending"
       /\ inbound' = Drop(inbound, r.used)
       /\ taken' = IF r.used > 0 THEN taken + 1 ELSE taken
       /\ last' = Op("receive", IF r.used > 0 THEN NextPeerFrame ELSE NoFrame,
                   r.kind, r.frame, <<>>)
    /\ UNCHANGED <<is_client, inEnded, peerLog, pc, codecVars, hsVars,
                   maskVars, farVars>>

\* WebSocket::close(), up to the loop: self.send(Frame::close(None)).await?
CloseSend ==
    \E mask \in (IF is_client THEN Masks ELSE {None}) :
    /\ pc = "active"
    /\ LET r == send_data(is_client, Frame_close, mask) IN
       IF r.panic
       THEN /\ pc' = "panicked"
            /\ last' = Op("close", Frame_close, "panic", NoFrame, <<>>)
       ELSE /\ pc' = "closing"
            /\ last' = Op("close", Frame_close, "running", NoFrame, r.data)
    /\ UNCHANGED <<is_client, inbound, inEnded, peerLog, taken, codecVars, hsVars,
                   maskVars, farVars>>

\* one turn of close()'s loop with `Err(_) => break` for every error
CloseReceive_breaks_on_error ==
    /\ pc = "closing"
    /\ LET r == receive(is_client, inbound, inEnded) IN
       /\ r.kind # "pending"
       /\ inbound' = Drop(inbound, r.used)
       /\ taken' = IF r.used > 0 THEN taken + 1 ELSE taken
       /\ IF r.kind = "frame" /\ is_close(r.frame)
          THEN /\ pc' = "closed"
               /\ last' = [last EXCEPT !.kind = "ok", !.frame = r.frame]
          ELSE IF r.kind = "frame"
          THEN /\ pc' = pc
               /\ last' = [last EXCEPT !.frame = r.frame]
          ELSE /\ pc' = "closed"
               /\ last' = [last EXCEPT !.kind = "ok"]
    /\ UNCHANGED <<is_client, inEnded, peerLog, codecVars, hsVars,
                   maskVars, farVars>>

\* WebSocket::close(), one turn of the loop: match self.receive().await
CloseReceive ==
    /\ pc = "closing"
    /\ LET r == receive(is_client, inbound, inEnded) IN
       /\ r.kind # "pending"
       /\ inbound' = Drop(inbound, r.used)
       /\ taken' = IF r.used > 0 THEN taken + 1 ELSE taken
       /\ IF r.kind = "frame" /\ is_close(r.frame)
          THEN /\ pc' = "closed"
               /\ last' = [last EXCEPT !.kind = "ok", !.frame = r.frame]
          ELSE IF r.kind = "frame"
          THEN /\ pc' = pc
               /\ last' = [last EXCEPT !.frame = r.frame]
          ELSE IF r.kind = "closed"
          THEN /\ pc' = "closed"
               /\ last' = [last EXCEPT !.kind = "ok"]
          ELSE /\ pc' = "closed"
               /\ last' = [last EXCEPT !.kind = r.kind]
    /\ UNCHANGED <<is_client, inEnded, peerLog, codecVars, hsVars,
                   maskVars, farVars>>

Next == PeerWrite \/ PeerEnd \/ Send \/ Receive \/ CloseSend \/ CloseReceive

Spec == Init /\ [][Next]_vars

(***************************************************************************)
(* Claims about the connection                                              *)
(***************************************************************************)
\* the peer has kept the protocol: its opcodes are valid, the peer of a server
\* is a client and masks every frame, the peer of a client is a server and
\* masks none
PeerKeepsRule ==
    \A i \in 1..Len(peerLog) :
        peerLog[i].opcode \in OpCodes /\ is_masked(peerLog[i]) = ~is_client

\* fin, rsv bits, opcode and payload of two frames agree
SameContent(f, g) ==
    /\ f.fin = g.fin
    /\ f.rsv1 = g.rsv1
    /\ f.rsv2 = g.rsv2
    /\ f.rsv3 = g.rsv3
    /\ f.opcode = g.opcode
    /\ f.payload = g.payload

\* C1: receive() on a Server connection returns a protocol error for an
\* inbound frame that is not masked and the frame for one that is masked; on
\* a Client connection it returns a protocol error for a masked frame and the
\* frame for one that is not masked.
C1_RoleMaskingRule ==
    (last.name = "receive" /\ last.arg # NoFrame
     /\ last.arg.opcode \in OpCodes) =>
        IF is_masked(last.arg) = ~is_client
        THEN last.kind = "frame" /\ last.frame = last.arg
        ELSE last.kind = "protocol"

\* C2: send() on a Client connection completes, and the bytes it wrote decode
\* to a frame with a mask and with the fin, rsv bits, opcode and payload of
\* the frame passed in.
C2_ClientSendMasked ==
    (last.name = "send" /\ is_client) =>
        /\ last.kind = "ok"
        /\ LET d == read_from(last.data, TRUE) IN
           /\ d.kind = "frame"
           /\ d.used = Len(last.data)
           /\ is_masked(d.frame)
           /\ SameContent(d.frame, last.arg)

\* C3: when the peer keeps the masking rule and its stream has not ended,
\* close() sends a Close frame and returns success on the first Close frame
\* of the peer, having read that frame and the frames before it and no more.
C3_CloseSequence ==
    (last.name = "close" /\ pc \in {"closed", "panicked"}
     /\ PeerKeepsRule /\ ~inEnded) =>
        /\ last.kind = "ok"
        /\ read_from(last.data, TRUE).kind = "frame"
        /\ is_close(peerLog[taken])
        /\ \A i \in 1..(taken - 1) : ~is_close(peerLog[i])

\* C5: when the stream ends before the peer has sent a Close frame, close(),
\* having sent its Close frame, returns success.
C5_CloseOnTransportClosure ==
    (last.name = "close" /\ pc = "closed" /\ inEnded /\ PeerKeepsRule
     /\ taken = Len(peerLog)
     /\ \A i \in 1..Len(peerLog) : ~is_close(peerLog[i])) =>
        last.kind = "ok"

\* C10: the bytes a Server connection writes in send() have the mask flag
\* clear and hold nothing between the length and the payload, whatever the
\* mask field of the frame passed in.
C10_ServerSendUnmasked ==
    (last.name = "send" /\ ~is_client /\ last.kind = "ok") =>
        /\ ~Bit(last.data[2], 7)
        /\ Len(last.data) = 2 + Len(last.arg.payload)

(***************************************************************************)
(* Two connections of the library on one stream (SpecPair): the far one,    *)
(* of the other role, calls send(); this one calls receive().  is_client    *)
(* is either value, so frames travel in both directions.                    *)
(***************************************************************************)
\* WebSocket::send(frame) on the far connection: its bytes arrive here
FarSend ==
    \E f \in SendFrames : \E mask \in (IF ~is_client THEN Masks ELSE {None}) :
    /\ pc = "active"
    /\ peerSend # "panic"
    /\ Len(peerLog) < MaxPeerFrames
    /\ LET r == send_data(~is_client, f, mask) IN
       IF r.panic
       THEN /\ peerSend' = "panic"
            /\ UNCHANGED <<inbound, peerLog>>
       ELSE /\ peerSend' = "ok"
            /\ inbound' = inbound \o r.data
            /\ peerLog' = Append(peerLog, f)
    /\ UNCHANGED <<is_client, inEnded, taken, pc, last, srv, net, codecVars,
                   hsVars, maskVars>>

NextPair == FarSend \/ Receive

SpecPair == Init /\ [][NextPair]_vars

\* C18: a turn of close()'s loop in which receive() returns an error (an I/O
\* error, or a protocol error for an invalid opcode or a masking violation)
\* ends close() with that error, not with success; and once close() has
\* returned, nothing more is read from the stream.
C18_CloseReturnsError ==
    [][/\ (/\ pc = "closing"
           /\ receive(is_client, inbound, inEnded).kind \in {"io", "protocol"}
           /\ <<pc, taken, last>>' # <<pc, taken, last>>) =>
              /\ pc' = "closed"
              /\ last'.kind = receive(is_client, inbound, inEnded).kind
       /\ pc = "closed" =>
              /\ <<pc, taken, last>>' = <<pc, taken, last>>
              /\ Len(inbound') >= Len(inbound)
              /\ SubSeq(inbound', 1, Len(inbound)) = inbound
      ]_vars

\* C18 witness: close() ended with a protocol error at the peer's frame with
\* opcode value 3, with a further frame of the peer unread behind it
C18_Witness ==
    /\ pc = "closed"
    /\ last.name = "close"
    /\ last.kind = "protocol"
    /\ taken >= 1
    /\ peerLog[taken].opcode = "Reserved3"
    /\ taken < Len(peerLog)

\* C13: between a connect() connection and an accept() connection, in both
\* directions, send() of a frame as Frame::new builds it (no mask field)
\* completes, and the k-th receive() on the other side returns the k-th frame
\* sent, with its opcode, fin, rsv bits and payload.
C13_PairDelivery ==
    (\A i \in 1..Len(peerLog) : ~is_masked(peerLog[i])) =>
        /\ peerSend # "panic"
        /\ last.name = "receive" =>
               /\ last.kind = "frame"
               /\ last.arg # NoFrame
               /\ SameContent(last.frame, last.arg)

(***************************************************************************)
(* Handshake (src/src/handshake.rs).  Text is the sequence of its bytes.    *)
(***************************************************************************)
\* "258EAFA5-E914-47DA-95CA-C5AB0DC85B11"
WEBSOCKET_GUID ==
    <<50, 53, 56, 69, 65, 70, 65, 53, 45, 69, 57, 49, 52, 45, 52, 55, 68,
    65, 45, 57, 53, 67, 65, 45, 67, 53, 65, 66, 48, 68, 67, 56, 53, 66, 49,
    49>>

\* "\r\n"
CRLF ==
    <<13, 10>>

\* "dGhlIHNhbXBsZSBub25jZQ=="
Key1 ==
    <<100, 71, 104, 108, 73, 72, 78, 104, 98, 88, 66, 115, 90, 83, 66, 117,
    98, 50, 53, 106, 90, 81, 61, 61>>

\* "AAAAAAAAAAAAAAAAAAAAAA=="
Key2 ==
    <<65, 65, 65, 65, 65, 65, 65, 65, 65, 65, 65, 65, 65, 65, 65, 65, 65,
    65, 65, 65, 65, 65, 61, 61>>

\* "s3pPLMBiTxaQ9kYGzzhZRbK+xOo="
Accept1 ==
    <<115, 51, 112, 80, 76, 77, 66, 105, 84, 120, 97, 81, 57, 107, 89, 71,
    122, 122, 104, 90, 82, 98, 75, 43, 120, 79, 111, 61>>

\* "ICX+Yqv66kxgM0FcWaLWlFLwTAI="
Accept2 ==
    <<73, 67, 88, 43, 89, 113, 118, 54, 54, 107, 120, 103, 77, 48, 70, 99,
    87, 97, 76, 87, 108, 70, 76, 119, 84, 65, 73, 61>>

\* the values generate_random_key() returns here: the Base64 text of 16 bytes
Keys == {Key1, Key2}

\* Base64(SHA-1(text)) for the texts hashed here, a table of the true values
Sha1Base64(text) ==
    CASE text = Key1 \o WEBSOCKET_GUID -> Accept1
      [] text = Key2 \o WEBSOCKET_GUID -> Accept2

\* generate_accept_value(key)
generate_accept_value(key) == Sha1Base64(key \o WEBSOCKET_GUID)

\* "GET / HTTP/1.1\r\nHost: server.example.com\r\nUpgrade: websocket\r\nConnection: Upgrade\r\nSec-WebSocket-Key: "
RequestHead ==
    <<71, 69, 84, 32, 47, 32, 72, 84, 84, 80, 47, 49, 46, 49, 13, 10, 72,
    111, 115, 116, 58, 32, 115, 101, 114, 118, 101, 114, 46, 101, 120, 97,
    109, 112, 108, 101, 46, 99, 111, 109, 13, 10, 85, 112, 103, 114, 97,
    100, 101, 58, 32, 119, 101, 98, 115, 111, 99, 107, 101, 116, 13, 10, 67,
    111, 110, 110, 101, 99, 116, 105, 111, 110, 58, 32, 85, 112, 103, 114,
    97, 100, 101, 13, 10, 83, 101, 99, 45, 87, 101, 98, 83, 111, 99, 107,
    101, 116, 45, 75, 101, 121, 58, 32>>

\* "\r\nSec-WebSocket-Version: 13\r\n\r\n"
RequestTail ==
    <<13, 10, 83, 101, 99, 45, 87, 101, 98, 83, 111, 99, 107, 101, 116, 45,
    86, 101, 114, 115, 105, 111, 110, 58, 32, 49, 51, 13, 10, 13, 10>>

\* "HTTP/1.1 101 Switching Protocols\r\nUpgrade: websocket\r\nConnection: Upgrade\r\nSec-WebSocket-Accept: "
ResponseHead ==
    <<72, 84, 84, 80, 47, 49, 46, 49, 32, 49, 48, 49, 32, 83, 119, 105, 116,
    99, 104, 105, 110, 103, 32, 80, 114, 111, 116, 111, 99, 111, 108, 115,
    13, 10, 85, 112, 103, 114, 97, 100, 101, 58, 32, 119, 101, 98, 115, 111,
    99, 107, 101, 116, 13, 10, 67, 111, 110, 110, 101, 99, 116, 105, 111,
    110, 58, 32, 85, 112, 103, 114, 97, 100, 101, 13, 10, 83, 101, 99, 45,
    87, 101, 98, 83, 111, 99, 107, 101, 116, 45, 65, 99, 99, 101, 112, 116,
    58, 32>>

\* "\r\n\r\n"
ResponseTail ==
    <<13, 10, 13, 10>>

\* "sec-websocket-key"
sec_websocket_key ==
    <<115, 101, 99, 45, 119, 101, 98, 115, 111, 99, 107, 101, 116, 45, 107,
    101, 121>>

\* "sec-websocket-accept"
sec_websocket_accept ==
    <<115, 101, 99, 45, 119, 101, 98, 115, 111, 99, 107, 101, 116, 45, 97,
    99, 99, 101, 112, 116>>

\* the request client_handshake formats
Request(key) == RequestHead \o key \o RequestTail

\* the response server_handshake formats
Response(response_key) == ResponseHead \o response_key \o ResponseTail

\* The operators on text below pass their arguments by value: an argument
\* is bound (t \in {e}) where it is handed on, so it is evaluated once.
\* the first index of byte b in text, 0 when there is none
RECURSIVE IndexFrom(_, _, _)
IndexFrom(text, b, i) ==
    IF i > Len(text) THEN 0
    ELSE IF text[i] = b THEN i
    ELSE CHOOSE n \in {IndexFrom(t, c, j) :
                          t \in {text}, c \in {b}, j \in {i + 1}} : TRUE

IndexOf(text, b) == IndexFrom(text, b, 1)

\* char::is_whitespace on ASCII
White == {9, 10, 11, 12, 13, 32}

\* str::trim
RECURSIVE trim_start(_)
trim_start(text) ==
    IF text # <<>> /\ Head(text) \in White
    THEN CHOOSE out \in {trim_start(t) : t \in {Tail(text)}} : TRUE
    ELSE text

RECURSIVE trim_end(_)
trim_end(text) ==
    IF text # <<>> /\ text[Len(text)] \in White
    THEN CHOOSE out \in {trim_end(t) : t \in {SubSeq(text, 1, Len(text) - 1)}} :
             TRUE
    ELSE text

trim(text) ==
    CHOOSE out \in {trim_end(s) : s \in {trim_start(t) : t \in {text}}} : TRUE

\* str::to_lowercase on ASCII
to_lowercase(text) ==
    CHOOSE out \in {[i \in 1..Len(t) |->
                        IF t[i] \in 65..90 THEN t[i] + 32 ELSE t[i]] :
                    t \in {text}} : TRUE

\* headers.insert(key, value): a later value replaces an earlier one
insert(h, key, value) == {p \in h : p[1] # key} \cup {<<key, value>>}

contains_key(h, key) == \E p \in h : p[1] = key

\* headers.get(key), for a key that is there
get(h, key) == (CHOOSE p \in h : p[1] = key)[2]

\* the loop body with the key stored as written, not in lower case
parse_header_as_written(h, line) ==
    CHOOSE out \in
        {IF colon = 0 THEN h
         ELSE insert(h,
                     trim(SubSeq(l, 1, colon - 1)),
                     trim(SubSeq(l, colon + 1, Len(l)))) :
            <<l, colon>> \in {<<line, IndexOf(line, 58)>>}} : TRUE

\* the loop body after read_line: split_once(':'), trim, to_lowercase, insert
parse_header(h, line) ==
    CHOOSE out \in
        {IF colon = 0 THEN h
         ELSE insert(h,
                     to_lowercase(trim(SubSeq(l, 1, colon - 1))),
                     trim(SubSeq(l, colon + 1, Len(l)))) :
            <<l, colon>> \in {<<line, IndexOf(line, 58)>>}} : TRUE

\* buf_reader.read_line(&mut line) on a BufReader holding buf over a stream
\* holding `stream`.  The reader takes the line from its buffer when the
\* buffer holds a line end; otherwise it uses the buffer up and fills it with
\* what the stream holds, as often as it takes to meet a line end or the end
\* of the stream.  st is "pending" while neither is there.
read_line(buf, stream, ended) ==
    LET inBuf == IndexOf(buf, 10)
        inStream == IndexOf(stream, 10)
    IN
    IF inBuf > 0
    THEN [st |-> "ok", line |-> SubSeq(buf, 1, inBuf),
          buf |-> SubSeq(buf, inBuf + 1, Len(buf)), stream |-> stream]
    ELSE IF inStream > 0
    THEN [st |-> "ok", line |-> buf \o SubSeq(stream, 1, inStream),
          buf |-> SubSeq(stream, inStream + 1, Len(stream)), stream |-> <<>>]
    ELSE IF ended
    THEN [st |-> "ok", line |-> buf \o stream, buf |-> <<>>, stream |-> <<>>]
    ELSE [st |-> "pending", line |-> <<>>, buf |-> buf, stream |-> stream]

\* server_handshake after the loop with the key itself sent back as the
\* accept value
server_respond_echo_key(h) ==
    IF ~contains_key(h, sec_websocket_key)
    THEN [res |-> "protocol", out |-> <<>>]
    ELSE [res |-> "ok", out |-> Response(get(h, sec_websocket_key))]

\* server_handshake after the loop: the key, the accept value, the response
server_respond(h) ==
    IF ~contains_key(h, sec_websocket_key)
    THEN [res |-> "protocol", out |-> <<>>]
    ELSE [res |-> "ok",
          out |-> Response(generate_accept_value(get(h, sec_websocket_key)))]

\* client_handshake after the loop without the comparison of the values
client_check_presence_only(h, key) ==
    IF ~contains_key(h, sec_websocket_accept) THEN "protocol" ELSE "ok"

\* client_handshake after the loop: the accept header against the expected
client_check(h, key) ==
    IF ~contains_key(h, sec_websocket_accept) THEN "protocol"
    ELSE IF get(h, sec_websocket_accept) # generate_accept_value(key)
    THEN "protocol"
    ELSE "ok"

\* The peer of the handshake writes whole lines: a start line, header lines
\* (name, value and how they are written) and the blank line.
\* "HTTP/1.1 101 Switching Protocols"
StatusLine ==
    <<72, 84, 84, 80, 47, 49, 46, 49, 32, 49, 48, 49, 32, 83, 119, 105, 116,
    99, 104, 105, 110, 103, 32, 80, 114, 111, 116, 111, 99, 111, 108, 115>>

\* "GET / HTTP/1.1"
RequestLine ==
    <<71, 69, 84, 32, 47, 32, 72, 84, 84, 80, 47, 49, 46, 49>>

\* "Sec-WebSocket-Key"
NameKey ==
    <<83, 101, 99, 45, 87, 101, 98, 83, 111, 99, 107, 101, 116, 45, 75, 101,
    121>>

\* "Sec-WebSocket-Accept"
NameAccept ==
    <<83, 101, 99, 45, 87, 101, 98, 83, 111, 99, 107, 101, 116, 45, 65, 99,
    99, 101, 112, 116>>

\* "Upgrade"
NameUpgrade ==
    <<85, 112, 103, 114, 97, 100, 101>>

\* "websocket"
ValueWebsocket ==
    <<119, 101, 98, 115, 111, 99, 107, 101, 116>>

MaxLines == 3

HeaderLine(name, value, style) == [name |-> name, value |-> value, style |-> style]

\* "Name: value", "NAME:value" with the name in upper case, " Name : value "
Styles == {"plain", "upper", "padded"}

to_uppercase(text) ==
    [i \in 1..Len(text) |->
        IF text[i] \in 97..122 THEN text[i] - 32 ELSE text[i]]

Render(l) ==
    CASE l.name = "blank" -> CRLF
      [] l.name = "frame" -> PeerWire(l.value)
      [] l.name = "start" -> l.value \o CRLF
      [] l.style = "plain" -> l.value[1] \o <<58, 32>> \o l.value[2] \o CRLF
      [] l.style = "upper" -> to_uppercase(l.value[1]) \o <<58>> \o l.value[2] \o CRLF
      [] l.style = "padded" ->
             <<32>> \o l.value[1] \o <<32, 58, 32, 32>> \o l.value[2] \o <<32>> \o CRLF

BlankLine == HeaderLine("blank", <<>>, "plain")

\* what a client writes to a server
ClientLines ==
    {BlankLine, HeaderLine("start", RequestLine, "plain"),
     HeaderLine("other", <<NameUpgrade, ValueWebsocket>>, "plain"),
     HeaderLine("key", <<NameKey, Key1>>, "plain"),
     HeaderLine("key", <<NameKey, Key2>>, "upper"),
     HeaderLine("key", <<NameKey, Key2>>, "padded")}

\* what a server writes to a client; the accept value in lower case is a
\* value that differs from the expected one in case only
ServerLines ==
    {BlankLine, HeaderLine("start", StatusLine, "plain"),
     HeaderLine("other", <<NameUpgrade, ValueWebsocket>>, "plain"),
     HeaderLine("accept", <<NameAccept, Accept1>>, "plain"),
     HeaderLine("accept", <<NameAccept, Accept2>>, "upper"),
     HeaderLine("accept", <<NameAccept, to_lowercase(Accept1)>>, "padded")}

InitHs ==
    /\ hsRole \in {"server", "client"}
    /\ hsPc = IF hsRole = "server" THEN "read" ELSE "start"
    /\ hsKey = <<>>
    /\ hsIn = <<>>
    /\ hsEnded = FALSE
    /\ hsBuf = <<>>
    /\ headers = {}
    /\ hsOut = <<>>
    /\ hsRes = "none"
    /\ hsLog = <<>>
    /\ frame = NoFrame
    /\ bytes = <<>>
    /\ decoded = NoResult
    /\ phase = "idle"
    /\ is_client = FALSE
    /\ inbound = <<>>
    /\ inEnded = FALSE
    /\ peerLog = <<>>
    /\ taken = 0
    /\ pc = "idle"
    /\ last = NoOp
    /\ MaskIdle
    /\ FarIdle

HsPeerLine ==
    \E l \in (IF hsRole = "server" THEN ClientLines ELSE ServerLines) :
    /\ ~hsEnded
    /\ Len(hsLog) < MaxLines
    /\ \A i \in 1..Len(hsLog) : hsLog[i].name # "frame"
    /\ hsLog' = Append(hsLog, l)
    /\ hsIn' = hsIn \o Render(l)
    /\ UNCHANGED <<hsRole, hsPc, hsKey, hsEnded, hsBuf, headers, hsOut, hsRes,
                   codecVars, connVars,
                   maskVars, farVars>>

HsPeerEnd ==
    /\ ~hsEnded
    /\ hsEnded' = TRUE
    /\ UNCHANGED <<hsRole, hsPc, hsKey, hsIn, hsBuf, headers, hsOut, hsRes,
                   hsLog, codecVars, connVars,
                   maskVars, farVars>>

\* Behind the blank line of its handshake message the peer goes on with a
\* frame, and writes no line after it: a Text frame, masked or not
HsFrames == {f \in PeerFrames : f.opcode = "Text"}

HsPeerFrame ==
    \E f \in HsFrames :
    /\ ~hsEnded
    /\ \E i \in 1..Len(hsLog) : hsLog[i].name = "blank"
    /\ \A i \in 1..Len(hsLog) : hsLog[i].name # "frame"
    /\ hsLog' = Append(hsLog, HeaderLine("frame", f, "plain"))
    /\ hsIn' = hsIn \o PeerWire(f)
    /\ UNCHANGED <<hsRole, hsPc, hsKey, hsEnded, hsBuf, headers, hsOut, hsRes,
                   codecVars, connVars,
                   maskVars, farVars>>

\* WebSocket::accept / connect return Ok(ws) after the handshake, buf_reader
\* and what it holds being dropped, and the caller's first ws.receive() reads
\* the stream
first_receive ==
    /\ hsPc = "done"
    /\ hsRes = "ok"
    /\ last = NoOp
    /\ LET r == receive(hsRole = "client", hsIn, hsEnded) IN
       /\ r.kind # "pending"
       /\ hsIn' = Drop(hsIn, r.used)
       /\ last' = Op("receive", NoFrame, r.kind, r.frame, <<>>)
    /\ UNCHANGED <<hsRole, hsPc, hsKey, hsEnded, hsBuf, headers, hsOut, hsRes,
                   hsLog, is_client, inbound, inEnded, peerLog, taken, pc,
                   codecVars, maskVars, farVars>>

\* server_handshake: one turn of the header loop and, on the blank line, the
\* rest of the function
server_handshake ==
    /\ hsRole = "server"
    /\ hsPc = "read"
    /\ LET r == read_line(hsBuf, hsIn, hsEnded) IN
       /\ r.st # "pending"
       /\ hsBuf' = r.buf
       /\ hsIn' = r.stream
       /\ IF r.line = CRLF
          THEN /\ hsPc' = "done"
               /\ hsRes' = server_respond(headers).res
               /\ hsOut' = hsOut \o server_respond(headers).out
               /\ headers' = headers
          ELSE /\ headers' = parse_header(headers, r.line)
               /\ UNCHANGED <<hsPc, hsRes, hsOut>>
    /\ UNCHANGED <<hsRole, hsKey, hsEnded, hsLog, codecVars, connVars,
                   maskVars, farVars>>

\* client_handshake up to the header loop: the key and the request
client_request ==
    \E key \in Keys :
    /\ hsRole = "client"
    /\ hsPc = "start"
    /\ hsKey' = key
    /\ hsOut' = hsOut \o Request(key)
    /\ hsPc' = "read"
    /\ UNCHANGED <<hsRole, hsIn, hsEnded, hsBuf, headers, hsRes, hsLog,
                   codecVars, connVars,
                   maskVars, farVars>>

\* client_handshake: one turn of the header loop and, on the blank line, the
\* rest of the function
client_handshake ==
    /\ hsRole = "client"
    /\ hsPc = "read"
    /\ LET r == read_line(hsBuf, hsIn, hsEnded) IN
       /\ r.st # "pending"
       /\ hsBuf' = r.buf
       /\ hsIn' = r.stream
       /\ IF r.line = CRLF
          THEN /\ hsPc' = "done"
               /\ hsRes' = client_check(headers, hsKey)
               /\ headers' = headers
          ELSE /\ headers' = parse_header(headers, r.line)
               /\ UNCHANGED <<hsPc, hsRes>>
    /\ UNCHANGED <<hsRole, hsKey, hsEnded, hsOut, hsLog, codecVars, connVars,
                   maskVars, farVars>>

NextHs ==
    HsPeerLine \/ HsPeerEnd \/ HsPeerFrame \/ server_handshake
    \/ client_request \/ client_handshake \/ first_receive

SpecHs == InitHs /\ [][NextHs]_vars

(***************************************************************************)
(* client_handshake against server_handshake (SpecHsPair).  The client is   *)
(* the handshake of hsVars; the server's locals and the read half of its    *)
(* stream are srv.  The stream is reliable and ordered: what one side wrote *)
(* reaches the other in pieces of any size, net counting the bytes of each  *)
(* direction that have arrived.                                              *)
(***************************************************************************)
InitHsPair ==
    /\ hsRole = "client"
    /\ hsPc = "start"
    /\ hsKey = <<>>
    /\ hsIn = <<>>
    /\ hsEnded = FALSE
    /\ hsBuf = <<>>
    /\ headers = {}
    /\ hsOut = <<>>
    /\ hsRes = "none"
    /\ hsLog = <<>>
    /\ srv = [pc |-> "read", in |-> <<>>, buf |-> <<>>, headers |-> {},
              out |-> <<>>, res |-> "none"]
    /\ net = [c2s |-> 0, s2c |-> 0]
    /\ peerSend = "none"
    /\ frame = NoFrame
    /\ bytes = <<>>
    /\ decoded = NoResult
    /\ phase = "idle"
    /\ is_client = TRUE
    /\ inbound = <<>>
    /\ inEnded = FALSE
    /\ peerLog = <<>>
    /\ taken = 0
    /\ pc = "idle"
    /\ last = NoOp
    /\ MaskIdle

\* the sizes of the next piece of `pending` to arrive: Piece bytes (which
\* cuts lines anywhere), the bytes up to the next line end, or all of it
Piece == 16

Chunks(pending) ==
    {n \in {Piece, IndexOf(pending, 10), Len(pending)} :
        n >= 1 /\ n <= Len(pending)}

\* bytes the client wrote reach the server
DeliverToServer ==
    LET pending == Drop(hsOut, net.c2s) IN
    \E n \in Chunks(pending) :
    /\ srv' = [srv EXCEPT !.in = srv.in \o SubSeq(pending, 1, n)]
    /\ net' = [net EXCEPT !.c2s = net.c2s + n]
    /\ UNCHANGED <<peerSend, hsVars, codecVars, connVars, maskVars>>

\* bytes the server wrote reach the client
DeliverToClient ==
    LET pending == Drop(srv.out, net.s2c) IN
    \E n \in Chunks(pending) :
    /\ hsIn' = hsIn \o SubSeq(pending, 1, n)
    /\ net' = [net EXCEPT !.s2c = net.s2c + n]
    /\ UNCHANGED <<hsRole, hsPc, hsKey, hsEnded, hsBuf, headers, hsOut, hsRes,
                   hsLog, peerSend, srv, codecVars, connVars, maskVars>>

\* server_handshake at the other end of the client's stream: one turn of the
\* header loop and, on the blank line, the rest of the function
far_server_handshake ==
    /\ srv.pc = "read"
    /\ LET r == read_line(srv.buf, srv.in, FALSE) IN
       /\ r.st # "pending"
       /\ IF r.line = CRLF
          THEN srv' = [srv EXCEPT !.buf = r.buf, !.in = r.stream,
                                  !.pc = "done",
                                  !.res = server_respond(srv.headers).res,
                                  !.out = srv.out
                                          \o server_respond(srv.headers).out]
          ELSE srv' = [srv EXCEPT !.buf = r.buf, !.in = r.stream,
                                  !.headers = parse_header(srv.headers, r.line)]
    /\ UNCHANGED <<peerSend, net, hsVars, codecVars, connVars, maskVars>>

NextHsPair ==
    client_request \/ client_handshake \/ far_server_handshake
    \/ DeliverToServer \/ DeliverToClient

\* each handshake is a task the executor runs whenever its stream has bytes
\* for it, and the stream passes on what was written
SpecHsPair ==
    /\ InitHsPair
    /\ [][NextHsPair]_vars
    /\ WF_vars(client_request)
    /\ WF_vars(client_handshake)
    /\ WF_vars(far_server_handshake)
    /\ WF_vars(DeliverToServer)
    /\ WF_vars(DeliverToClient)

(***************************************************************************)
(* Claims about the handshake                                               *)
(***************************************************************************)
\* the lines of the peer up to its first blank line, when it has written one
RECURSIVE HeadersSent(_)
HeadersSent(log) ==
    IF log = <<>> \/ Head(log).name = "blank" THEN <<>>
    ELSE <<Head(log)>> \o HeadersSent(Tail(log))

\* the value of the last header of that name among lines, <<>> when none
RECURSIVE LastValue(_, _)
LastValue(lines, name) ==
    IF lines = <<>> THEN <<>>
    ELSE IF lines[Len(lines)].name = name THEN lines[Len(lines)].value[2]
    ELSE LastValue(SubSeq(lines, 1, Len(lines) - 1), name)

\* the accept value of a key, from the reference table
ExpectedAccept(key) == IF key = Key1 THEN Accept1 ELSE Accept2

\* C6: client_handshake, having read headers ended by a blank line, returns
\* a protocol error when they hold no Sec-WebSocket-Accept header and when
\* the value of that header differs from the accept value of the key it
\* sent; it returns success only when the two are equal.
C6_ClientAcceptChecked ==
    (hsRole = "client" /\ hsPc = "done") =>
        LET received == LastValue(HeadersSent(hsLog), "accept") IN
        /\ hsRes \in {"ok", "protocol"}
        /\ received = <<>> => hsRes = "protocol"
        /\ received # ExpectedAccept(hsKey) => hsRes = "protocol"
        /\ received = ExpectedAccept(hsKey) => hsRes = "ok"

\* C6 witness: the server answered with the accept value of another key and
\* the handshake ended in a protocol error
C6_Witness ==
    /\ hsRole = "client"
    /\ hsPc = "done"
    /\ hsKey = Key1
    /\ LastValue(HeadersSent(hsLog), "accept") = Accept2
    /\ hsRes = "protocol"

\* C7: server_handshake, having read headers ended by a blank line, returns
\* a protocol error and has written nothing when no header is named
\* sec-websocket-key in any case of letters; otherwise it has written one
\* upgrade response, with the accept value of that header's key.
C7_ServerRequiresKey ==
    (hsRole = "server" /\ hsPc = "done") =>
        LET key == LastValue(HeadersSent(hsLog), "key") IN
        IF key = <<>>
        THEN hsRes = "protocol" /\ hsOut = <<>>
        ELSE hsRes = "ok"
             /\ hsOut = ResponseHead \o ExpectedAccept(key) \o ResponseTail

\* C7 witness: a request with headers but no key header was refused and
\* nothing was written
C7_Witness ==
    /\ hsRole = "server"
    /\ hsPc = "done"
    /\ Len(HeadersSent(hsLog)) >= 1
    /\ LastValue(HeadersSent(hsLog), "key") = <<>>
    /\ hsRes = "protocol"
    /\ hsOut = <<>>

\* what the peer wrote behind its first blank line
RECURSIVE AfterBlank(_)
AfterBlank(log) ==
    IF log = <<>> THEN <<>>
    ELSE IF Head(log).name = "blank" THEN Tail(log)
    ELSE AfterBlank(Tail(log))

\* C16: when connect() or accept() has succeeded and the peer wrote nothing
\* but frames behind its handshake message, no byte of them was taken into
\* the handshake's line buffer and dropped with it, and the first receive()
\* looks at the first of those frames: it returns that frame or, for a frame
\* receive() refuses, a protocol error, and no I/O error while a frame is left.
C16_NoFrameBytesLost ==
    (/\ hsPc = "done"
     /\ hsRes = "ok"
     /\ \A i \in 1..Len(AfterBlank(hsLog)) : AfterBlank(hsLog)[i].name = "frame") =>
        /\ hsBuf = <<>>
        /\ last.kind = "frame" =>
               SameContent(last.frame, AfterBlank(hsLog)[1].value)
        /\ last.kind = "io" => AfterBlank(hsLog) = <<>>

\* the turn of the header loop, of either handshake
HeaderLoopTurn == server_handshake \/ client_handshake

\* C17: a handshake in its header loop whose stream has ended can take a
\* turn that changes its state, by reading a line that is left or by
\* returning: it does not go round the loop for ever on a stream that ended
\* before the blank line.
C17_HeaderLoopTerminates ==
    (hsPc = "read" /\ hsEnded) => ENABLED <<HeaderLoopTurn>>_vars

\* both handshakes have returned Ok(()), the server having written the
\* response with the accept value of the client's key
BothAgreed ==
    /\ hsPc = "done"
    /\ hsRes = "ok"
    /\ srv.pc = "done"
    /\ srv.res = "ok"
    /\ srv.out = ResponseHead \o ExpectedAccept(hsKey) \o ResponseTail

\* C15: client_handshake and server_handshake run against each other over a
\* reliable ordered stream both return success, however their reads and
\* writes and the arrival of the bytes interleave, and the accept value the
\* server sent is the one the client expects for its key.
C15_HandshakeAgreement == <>[]BothAgreed

\* C15 witness: both sides are done with the second key, the server having
\* read its last line from bytes that arrived in more than one piece
C15_Witness ==
    /\ BothAgreed
    /\ hsKey = Key2
    /\ get(headers, sec_websocket_accept) = Accept2
    /\ get(srv.headers, sec_websocket_key) = Key2

(***************************************************************************)
(* The codec on its own: a frame is encoded and the bytes are decoded       *)
(* (SpecCodec), and arbitrary bytes are decoded (SpecWire)                  *)
(***************************************************************************)
\* the payload lengths at the edges of the three length tiers
PayloadLens == {0, 1, 125, 126, 65535, 65536}

SmallLens == {len \in PayloadLens : len < 65535}

MaxSeed == 1

\* every header and mask with the short payloads, and the two long payloads
\* under a few headers
CodecFrames ==
    {[fin |-> fin, rsv1 |-> r1, rsv2 |-> r2, rsv3 |-> r3, opcode |-> op,
      mask |-> m, payload |-> Payload(len, seed)] :
        fin \in BOOLEAN, r1 \in BOOLEAN, r2 \in BOOLEAN, r3 \in BOOLEAN,
        op \in OpCodes, m \in {None} \cup Masks, len \in SmallLens,
        seed \in 0..MaxSeed}
    \cup
    {[fin |-> fin, rsv1 |-> FALSE, rsv2 |-> fin, rsv3 |-> FALSE, opcode |-> op,
      mask |-> m, payload |-> Payload(len, 0)] :
        fin \in BOOLEAN, op \in {"Binary", "Pong"}, m \in {None} \cup Masks,
        len \in PayloadLens \ SmallLens}

InitCodec ==
    /\ frame \in CodecFrames
    /\ bytes = <<>>
    /\ decoded = NoResult
    /\ phase = "new"
    /\ is_client = FALSE
    /\ inbound = <<>>
    /\ inEnded = FALSE
    /\ peerLog = <<>>
    /\ taken = 0
    /\ pc = "idle"
    /\ last = NoOp
    /\ hsRole = "none"
    /\ hsPc = "idle"
    /\ hsKey = <<>>
    /\ hsIn = <<>>
    /\ hsEnded = FALSE
    /\ hsBuf = <<>>
    /\ headers = {}
    /\ hsOut = <<>>
    /\ hsRes = "none"
    /\ hsLog = <<>>
    /\ MaskIdle
    /\ FarIdle

\* let bytes = frame.to_bytes();
Encode ==
    /\ phase = "new"
    /\ bytes' = to_bytes(frame)
    /\ phase' = "encoded"
    /\ UNCHANGED <<frame, decoded, connVars, hsVars, maskVars, farVars>>

\* Frame::read_from(&mut &bytes[..]): a reader over a byte slice, which ends
\* after its last byte
Decode ==
    /\ phase = "encoded"
    /\ decoded' = read_from(bytes, TRUE)
    /\ phase' = "decoded"
    /\ UNCHANGED <<frame, bytes, connVars, hsVars, maskVars, farVars>>

NextCodec == Encode \/ Decode

SpecCodec == InitCodec /\ [][NextCodec]_vars

\* Bytes that did not come from to_bytes: any first byte, a second byte of each
\* length code with and without the mask flag, and what follows cut anywhere.
\* After code 127 come eight length bytes that stay in the range of the
\* model's integers.
MaxTail == 12

SecondBytes == {0, 1, 129, 126, 254, 127}

\* length 3 in two bytes, then bytes that hold a payload and a further frame
Tail16 == <<0, 3, 65, 66, 67, 129, 1, 72, 105, 138, 0, 88>>

\* length 2 in eight bytes, the payload, and the frame 81 00
Tail64 == <<0, 0, 0, 0, 0, 0, 0, 2, 65, 66, 129, 0>>

Prefixes(t) ==
    {SubSeq(t, 1, n) : n \in 0..(IF MaxTail < Len(t) THEN MaxTail ELSE Len(t))}

Tails(b2) == IF b2 % 128 = 127 THEN Prefixes(Tail64) ELSE Prefixes(Tail16)

WireInputs ==
    {<<b[1], b[2]>> \o b[3] :
        b \in UNION {{<<b1, b2, t>> : b1 \in Byte, t \in Tails(b2)} :
                        b2 \in SecondBytes}}
    \cup {<<b1>> : b1 \in Byte} \cup {<<>>}

InitWire ==
    /\ frame = NoFrame
    /\ bytes \in WireInputs
    /\ decoded = NoResult
    /\ phase = "encoded"
    /\ is_client = FALSE
    /\ inbound = <<>>
    /\ inEnded = FALSE
    /\ peerLog = <<>>
    /\ taken = 0
    /\ pc = "idle"
    /\ last = NoOp
    /\ hsRole = "none"
    /\ hsPc = "idle"
    /\ hsKey = <<>>
    /\ hsIn = <<>>
    /\ hsEnded = FALSE
    /\ hsBuf = <<>>
    /\ headers = {}
    /\ hsOut = <<>>
    /\ hsRes = "none"
    /\ hsLog = <<>>
    /\ MaskIdle
    /\ FarIdle

\* a second Frame::read_from on the same reader, after a frame was returned
DecodeNext ==
    /\ phase = "decoded"
    /\ decoded.kind = "frame"
    /\ frame' = decoded.frame
    /\ decoded' = read_from(Drop(bytes, decoded.used), TRUE)
    /\ phase' = "next"
    /\ UNCHANGED <<bytes, connVars, hsVars, maskVars, farVars>>

NextWire == Decode \/ DecodeNext

SpecWire == InitWire /\ [][NextWire]_vars

(***************************************************************************)
(* Claims about the codec                                                   *)
(***************************************************************************)
\* the 4-bit wire value the data model gives each opcode
WireValue(op) ==
    CASE op = "Continuation" -> 0
      [] op = "Text"         -> 1
      [] op = "Binary"       -> 2
      [] op = "Close"        -> 8
      [] op = "Ping"         -> 9
      [] op = "Pong"         -> 10
      [] OTHER               -> 15

\* C4: decoding the bytes of f.to_bytes() returns a frame equal to f in fin,
\* rsv bits, opcode, mask presence and value, and payload, for every frame
\* whose payload length is one of 0, 1, 125, 126, 65535, 65536.
C4_RoundTrip ==
    phase = "decoded" =>
        /\ decoded.kind = "frame"
        /\ decoded.frame = frame

\* C8: once the two header bytes are there, read_from returns a protocol
\* error when the low 4 bits of the first byte are outside {0,1,2,8,9,10};
\* a frame it returns never carries another opcode than the one whose wire
\* value those bits are; and it does return one when the bits are in the set
\* and the stream holds the whole frame.
C8_InvalidOpcodeRejected ==
    (phase = "decoded" /\ Len(bytes) >= 2) =>
        LET value == bytes[1] % 16 IN
        /\ value \notin {0, 1, 2, 8, 9, 10} => decoded.kind = "protocol"
        /\ decoded.kind = "frame" => WireValue(decoded.frame.opcode) = value
        /\ (value \in {0, 1, 2, 8, 9, 10} /\ bytes[2] = 0) =>
               decoded.kind = "frame"

\* C8 witness: a first byte with opcode bits 3 was rejected, with a complete
\* frame behind it
C8_Witness ==
    /\ phase = "decoded"
    /\ Len(bytes) >= 2
    /\ bytes[1] % 16 = 3
    /\ bytes[2] = 0
    /\ decoded.kind = "protocol"

\* C9: to_bytes writes the payload length L in the smallest tier that holds
\* it: the 7-bit literal for L <= 125, code 126 and two big-endian bytes for
\* 126 <= L <= 65535, code 127 and eight big-endian bytes for L >= 65536; the
\* encoded value is L, and the mask and the payload follow it.
C9_MinimalLengthTier ==
    phase \in {"encoded", "decoded"} /\ frame # NoFrame =>
        LET L == Len(frame.payload)
            code == bytes[2] % 128
            ext == IF L <= 125 THEN 0 ELSE IF L <= 65535 THEN 2 ELSE 8
        IN
        /\ L <= 125 => code = L
        /\ (126 <= L /\ L <= 65535) =>
               code = 126 /\ (bytes[3] * 256) + bytes[4] = L
        /\ L >= 65536 =>
               /\ code = 127
               /\ \A i \in 3..6 : bytes[i] = 0
               /\ (((bytes[7] * 256 + bytes[8]) * 256 + bytes[9]) * 256)
                      + bytes[10] = L
        /\ Len(bytes) = 2 + ext + Len(frame.mask) + L

\* C9 witness: a payload of 126 bytes, the first that does not fit the 7-bit
\* literal, was encoded with code 126 and the length 126 in two bytes
C9_Witness ==
    /\ phase = "encoded"
    /\ Len(frame.payload) = 126
    /\ bytes[2] % 128 = 126
    /\ bytes[3] = 0
    /\ bytes[4] = 126

(***************************************************************************)
(* The masking transform on its own (SpecMask): a byte sequence and a mask  *)
(* go through the XOR loop once and twice, and through mask_frame           *)
(***************************************************************************)
MaxData == 5

DataBytes == {0, 90, 255}

DataInputs == UNION {[1..n -> DataBytes] : n \in 0..MaxData}

InitMask ==
    /\ mData \in DataInputs
    /\ mMask \in Masks
    /\ mOut = <<>>
    /\ mPc = "new"
    /\ frame = NoFrame
    /\ bytes = <<>>
    /\ decoded = NoResult
    /\ phase = "idle"
    /\ is_client = FALSE
    /\ inbound = <<>>
    /\ inEnded = FALSE
    /\ peerLog = <<>>
    /\ taken = 0
    /\ pc = "idle"
    /\ last = NoOp
    /\ hsRole = "none"
    /\ hsPc = "idle"
    /\ hsKey = <<>>
    /\ hsIn = <<>>
    /\ hsEnded = FALSE
    /\ hsBuf = <<>>
    /\ headers = {}
    /\ hsOut = <<>>
    /\ hsRes = "none"
    /\ hsLog = <<>>
    /\ FarIdle

\* the XOR loop of the sender (mask.rs)
MaskOnce ==
    /\ mPc = "new"
    /\ mOut' = XorMask(mData, mMask)
    /\ mPc' = "once"
    /\ UNCHANGED <<mData, mMask, codecVars, connVars, hsVars, farVars>>

\* the XOR loop of the receiver (frame.rs), on what the first loop left
MaskTwice ==
    /\ mPc = "once"
    /\ mOut' = XorMask(mOut, mMask)
    /\ mPc' = "twice"
    /\ UNCHANGED <<mData, mMask, codecVars, connVars, hsVars, farVars>>

\* mask_frame(&mut data), the mask being what rng.gen() returned
MaskFrame ==
    /\ mPc = "new"
    /\ LET r == mask_frame(mData, mMask) IN
       /\ mOut' = r.data
       /\ mPc' = IF r.panic THEN "panicked" ELSE "framed"
    /\ UNCHANGED <<mData, mMask, codecVars, connVars, hsVars, farVars>>

NextMask == MaskOnce \/ MaskTwice \/ MaskFrame

SpecMask == InitMask /\ [][NextMask]_vars

\* C12: XOR-ing a byte sequence cyclically with a 4-byte mask, and the
\* result with the same mask again, gives the sequence back, for every byte
\* sequence and every mask.
C12_MaskInvolution ==
    mPc = "twice" => mOut = mData

\* C12 witness: five bytes that the mask changes came back after the second
\* pass
C12_Witness ==
    /\ mPc = "twice"
    /\ Len(mData) = 5
    /\ XorMask(mData, mMask) # mData
    /\ mOut = mData

\* C14: mask_frame completes for an input of any length, under 4 bytes too,
\* and leaves the 4-byte mask followed by every byte of the input XOR-ed with
\* mask[i % 4]: 4 bytes more than the input, none dropped or overwritten, and
\* the XOR of the bytes after the mask with the mask is the input.
C14_MaskFramePrepends ==
    mPc \in {"framed", "panicked"} =>
        /\ mPc = "framed"
        /\ Len(mOut) = Len(mData) + 4
        /\ SubSeq(mOut, 1, 4) = mMask
        /\ XorMask(SubSeq(mOut, 5, Len(mOut)), mMask) = mData

\* the length a stream's first frame declares, from the bytes that are there
\* (the streams of WireInputs keep the high four of eight length bytes zero)
DeclaredLen(stream) ==
    LET n == Len(stream)
        code == stream[2] % 128
    IN  IF code < 126 THEN code
        ELSE IF code = 126
        THEN (IF n >= 4 THEN (stream[3] * 256) + stream[4] ELSE 0)
        ELSE (IF n >= 10
              THEN (((((stream[7] * 256) + stream[8]) * 256) + stream[9]) * 256)
                   + stream[10]
              ELSE 0)

\* the bytes before the payload of a stream's first frame: the two header
\* bytes, the extended length and the mask key
HeadLen(stream) ==
    LET code == stream[2] % 128 IN
    2 + (IF code = 126 THEN 2 ELSE IF code = 127 THEN 8 ELSE 0)
      + (IF stream[2] >= 128 THEN 4 ELSE 0)

\* C11: read_from returns an I/O error, and neither a frame nor a protocol
\* error nor connection-closed, when the stream ends before the two header
\* bytes and, for a valid opcode, when it ends before the extended length,
\* the mask key or the declared payload is complete.
C11_ShortReadIsIo ==
    phase = "decoded" =>
        /\ Len(bytes) < 2 => decoded.kind = "io"
        /\ (/\ Len(bytes) >= 2
            /\ bytes[1] % 16 \in {0, 1, 2, 8, 9, 10}
            /\ Len(bytes) < HeadLen(bytes) + DeclaredLen(bytes)) =>
               decoded.kind = "io"

\* C11 witness: a stream cut inside the payload (length 3 declared in two
\* bytes, one payload byte there) was answered with an I/O error
C11_Witness ==
    /\ phase = "decoded"
    /\ Len(bytes) = 5
    /\ bytes[1] = 129
    /\ bytes[2] = 126
    /\ DeclaredLen(bytes) = 3
    /\ decoded.kind = "io"

\* C19: read_from takes a length from whichever tier the second byte names,
\* also when a smaller tier would have held it (3 in two bytes, 2 in eight
\* bytes): given the whole frame it returns a frame whose payload is the
\* declared number of bytes behind the header, and it takes exactly the
\* bytes of that frame, so that the next read_from starts at the byte after
\* it.
C19_LenientRead ==
    (/\ phase \in {"decoded", "next"}
     /\ Len(bytes) >= 2
     /\ bytes[1] % 16 \in {0, 1, 2, 8, 9, 10}
     /\ Len(bytes) >= HeadLen(bytes) + DeclaredLen(bytes)) =>
        LET head == HeadLen(bytes)
            len == DeclaredLen(bytes)
            raw == SubSeq(bytes, head + 1, head + len)
            key == SubSeq(bytes, head - 3, head)
            first == IF phase = "decoded" THEN decoded.frame ELSE frame
        IN
        /\ phase = "decoded" =>
               decoded.kind = "frame" /\ decoded.used = head + len
        /\ Len(first.payload) = len
        /\ first.payload = IF bytes[2] >= 128 THEN XorMask(raw, key) ELSE raw
        /\ phase = "next" =>
               decoded = read_from(SubSeq(bytes, head + len + 1, Len(bytes)),
                                   TRUE)

\* C19 witness: the length 3 in two bytes (code 126) gave a frame of the
\* three bytes 41 42 43, and the next read returned the frame 81 01 48 that
\* follows it
C19_Witness ==
    /\ phase = "next"
    /\ bytes[1] = 130
    /\ bytes[2] = 126
    /\ frame.opcode = "Binary"
    /\ frame.payload = <<65, 66, 67>>
    /\ decoded.kind = "frame"
    /\ decoded.frame.opcode = "Text"
    /\ decoded.frame.fin
    /\ decoded.frame.payload = <<72>>
    /\ decoded.used = 3

====
